---- MODULE Spec2Model ----
(***************************************************************************)
(* Pippa memory store: PippaMemoryTool (mcp_pippa_memory/memory.py) over   *)
(* a ChromaDB collection with cosine space, the OpenAI embedding provider  *)
(* as a nondeterministic collaborator, and the callers of remember         *)
(* (server.py tool_handler, streamlit_app.py Create Memory page).          *)
(***************************************************************************)
EXTENDS Integers, Sequences, FiniteSets, TLC

\* ------------------------------------------------------------------ bounds
\* Number of uuid4 draws, i.e. of remember calls, in one behaviour.
MaxUuids == 3

\* ------------------------------------------------------------------ inputs
\* Memory texts and recall queries.  "sky" and "blue" embed in the same
\* direction with different norms, "grass" is orthogonal to both.
Texts == {"blue", "grass"}
Queries == {"sky", "grass"}

\* Texts a tool call or the form can carry: the empty text included.
FormTexts == Texts \cup {""}

\* What the embedding provider does with one request: it answers with the
\* model's vector, or it fails (unreachable, quota, ...).
ProviderResponses == {"ok", "error"}

\* What the persistent collection does with one call.  The store's disk is
\* healthy in Spec; "fail" is the library raising.
DbOutcomes == {"ok"}

\* What a ChromaDB call may do: work, or raise.
DbFaults == {"ok", "fail"}

\* The ids uuid4 can draw, and an id no uuid4 call ever returns
\* ("nonexistent-id").
Ids == 1..MaxUuids
UnknownIds == {0}

\* limit arguments: <<>> is Python's None, <<k>> the integer k.
MaxLimit == MaxUuids
Limits == {<<>>} \cup {<<k>> : k \in 1..MaxLimit}

VARIABLES
    collection,     \* the ChromaDB collection "pippa_memories", in insertion order
    dimension,      \* the collection's embedding dimension, 0 while unset
    SETTINGS,       \* config.SETTINGS
    memory_tool,    \* the attributes PippaMemoryTool.__init__ fixes: embedding_model
    session_state,  \* st.session_state of the admin UI
    uuids,          \* ids uuid4 has drawn so far
    now,            \* the clock behind datetime.now()
    last,           \* the most recent call: arguments, outcome, result
    returned,       \* history: the ids successful remember calls returned, in order
    stored,         \* history: id -> text for every id remember returned and
                    \*          delete_memory has not been called with since
    deleted,        \* history: returned ids for which delete_memory reported success
    confirm_flags,  \* st.session_state: the confirmation flags of the admin UI
    logs,           \* the log files and the log selected on the Logs page
    clicked,        \* history: ids of memories whose Delete button was clicked
    greeting_session  \* the greeting server: how far its client session is

vars == <<collection, dimension, SETTINGS, memory_tool, session_state,
          uuids, now, last,
          returned, stored, deleted,
                   confirm_flags, logs, clicked, greeting_session>>
\* A Python value that may be an int or a str, where the code tells them
\* apart (the log level).
PyInt(n) == [int |-> n]
PyStr(s) == [str |-> s]

\* The upper-case attributes of Python's logging module: the level numbers
\* and one format string.
logging ==
    [NOTSET |-> 0, DEBUG |-> 10, INFO |-> 20, WARNING |-> 30, ERROR |-> 40,
     CRITICAL |-> 50]

BASIC_FORMAT == "%(levelname)s:%(name)s:%(message)s"

\* ---------------------------------------------------------------- config.py
DEFAULT_SETTINGS ==
    [log_level |-> PyInt(logging.INFO), db_path |-> "DB_DIR",
     embedding_model |-> "text-embedding-3-small", similarity_top_k |-> 3]
\* Mutant of get_setting: the value the process started with.
get_setting_at_start(key, default) ==
    IF key \in DOMAIN DEFAULT_SETTINGS THEN DEFAULT_SETTINGS[key] ELSE default

get_setting(key, default) ==
    IF key \in DOMAIN SETTINGS THEN SETTINGS[key] ELSE default

\* ------------------------------------------------------ embedding provider
\* The vector the configured model gives a text.
Embed(text) ==
    CASE text = "sky" -> <<1, 0>>
      [] text = "blue" -> <<3, 0>>
      [] text = "grass" -> <<0, 1>>
      [] OTHER -> <<1, 1>>

\* PippaMemoryTool._get_embedding: the request names self.embedding_model;
\* the provider's answer, or its exception.
get_embedding(text, response) ==
    CASE response = "error" ->
            [raised |-> TRUE, embedding |-> <<>>,
             model |-> memory_tool.embedding_model]
      [] response = "baddim" ->
            [raised |-> FALSE, embedding |-> <<Embed(text)[1]>>,
             model |-> memory_tool.embedding_model]
      [] OTHER ->
            [raised |-> FALSE, embedding |-> Embed(text),
             model |-> memory_tool.embedding_model]

\* ------------------------------------------------------ ChromaDB collection
RECURSIVE Dot(_, _)
Dot(u, v) ==
    IF u = <<>> THEN 0 ELSE u[1] * v[1] + Dot(Tail(u), Tail(v))

\* Mutant of CosineLeq: squared Euclidean distance, ChromaDB's default space
\* "l2", which the collection uses when "hnsw:space" is not given.
L2Leq(q, a, b) ==
    LET da == [i \in 1..Len(q) |-> q[i] - a[i]]
        db == [i \in 1..Len(q) |-> q[i] - b[i]]
    IN Dot(da, da) <= Dot(db, db)

\* "hnsw:space": "cosine".  Distance 1 - cos(q, a) is at most 1 - cos(q, b):
\* Dot(q,a)/|a| >= Dot(q,b)/|b|, compared without square roots.
CosineLeq(q, a, b) ==
    LET x == Dot(q, a)
        y == Dot(q, b)
        A == Dot(a, a)
        B == Dot(b, b)
    IN CASE x >= 0 /\ y < 0 -> TRUE
         [] x < 0 /\ y >= 0 -> FALSE
         [] x >= 0 /\ y >= 0 -> x * x * B >= y * y * A
         [] OTHER -> x * x * B <= y * y * A

IdsOf(coll) == {coll[i].id : i \in 1..Len(coll)}

RECURSIVE Without(_, _)
Without(coll, id) ==
    IF coll = <<>> THEN <<>>
    ELSE IF coll[1].id = id THEN Without(Tail(coll), id)
    ELSE <<coll[1]>> \o Without(Tail(coll), id)

\* Mutant of collection_add: records are keyed by their text, a record with
\* the same document is replaced.
collection_add_by_document(coll, dim, rec, db) ==
    LET kept == SelectSeq(coll, LAMBDA r : r.document # rec.document)
    IN CASE db = "fail" -> [raised |-> TRUE, collection |-> coll, dimension |-> dim]
         [] dim # 0 /\ Len(rec.embedding) # dim ->
               [raised |-> TRUE, collection |-> coll, dimension |-> dim]
         [] OTHER -> [raised |-> FALSE, collection |-> Append(kept, rec),
                      dimension |-> Len(rec.embedding)]

\* collection.add(ids, embeddings, metadatas, documents): the dimension is
\* fixed by the first add and checked afterwards; an id already present is
\* ignored; the record is written whole or not at all.
collection_add(coll, dim, rec, db) ==
    CASE db = "fail" -> [raised |-> TRUE, collection |-> coll, dimension |-> dim]
      [] dim # 0 /\ Len(rec.embedding) # dim ->
            [raised |-> TRUE, collection |-> coll, dimension |-> dim]
      [] rec.id \in IdsOf(coll) ->
            [raised |-> FALSE, collection |-> coll, dimension |-> dim]
      [] OTHER -> [raised |-> FALSE, collection |-> Append(coll, rec),
                   dimension |-> Len(rec.embedding)]
\* Mutant of Rank: the order of equally close records depends on the call
\* made before (earliest first after a recall, latest first otherwise).
Rank_by_history(coll, q, i) ==
    Cardinality({j \in 1..Len(coll) :
        \/ ~CosineLeq(q, coll[i].embedding, coll[j].embedding)
        \/ /\ CosineLeq(q, coll[j].embedding, coll[i].embedding)
           /\ IF last.op = "recall" THEN j < i ELSE j > i})

\* Position of record i in the ranking for query vector q: the number of
\* records strictly closer, or equally close and inserted earlier.
Rank(coll, q, i) ==
    Cardinality({j \in 1..Len(coll) :
        \/ ~CosineLeq(q, coll[i].embedding, coll[j].embedding)
        \/ /\ CosineLeq(q, coll[j].embedding, coll[i].embedding)
           /\ j < i})

Min(a, b) == IF a <= b THEN a ELSE b

\* Mutant of collection_query: n_results is not applied, every record is
\* returned.
collection_query_all(coll, dim, q, n, db) ==
    CASE db = "fail" -> [raised |-> TRUE, records |-> <<>>]
      [] n <= 0 -> [raised |-> TRUE, records |-> <<>>]
      [] dim # 0 /\ Len(q) # dim -> [raised |-> TRUE, records |-> <<>>]
      [] OTHER ->
            [raised |-> FALSE,
             records |-> [k \in 1..Len(coll) |->
                            coll[CHOOSE i \in 1..Len(coll) : Rank(coll, q, i) = k - 1]]]

\* collection.query(query_embeddings=[q], n_results=n): n must be a positive
\* integer, q must have the collection's dimension; the n nearest records
\* (all of them when fewer are stored), nearest first.
collection_query(coll, dim, q, n, db) ==
    CASE db = "fail" -> [raised |-> TRUE, records |-> <<>>]
      [] n <= 0 -> [raised |-> TRUE, records |-> <<>>]
      [] dim # 0 /\ Len(q) # dim -> [raised |-> TRUE, records |-> <<>>]
      [] OTHER ->
            [raised |-> FALSE,
             records |-> [k \in 1..Min(n, Len(coll)) |->
                            coll[CHOOSE i \in 1..Len(coll) : Rank(coll, q, i) = k - 1]]]
\* Mutant of collection_get: the newest limit records.
collection_get_newest(coll, limit, db) ==
    CASE db = "fail" -> [raised |-> TRUE, records |-> <<>>]
      [] OTHER -> [raised |-> FALSE,
                   records |-> SubSeq(coll, Len(coll) - Min(limit, Len(coll)) + 1,
                                      Len(coll))]

\* collection.get(limit=limit): the first limit records.
collection_get(coll, limit, db) ==
    CASE db = "fail" -> [raised |-> TRUE, records |-> <<>>]
      [] OTHER -> [raised |-> FALSE, records |-> SubSeq(coll, 1, Min(limit, Len(coll)))]

\* Mutant of collection_delete: the call is accepted and removes nothing.
collection_delete_nothing(coll, id, db) ==
    CASE db = "fail" -> [raised |-> TRUE, collection |-> coll]
      [] OTHER -> [raised |-> FALSE, collection |-> coll]
\* Mutant of collection_delete: every record with the text of record id goes.
collection_delete_by_document(coll, id, db) ==
    CASE db = "fail" -> [raised |-> TRUE, collection |-> coll]
      [] OTHER ->
            [raised |-> FALSE,
             collection |->
                SelectSeq(coll, LAMBDA rec :
                    \A i \in 1..Len(coll) :
                        coll[i].id = id => coll[i].document # rec.document)]

\* collection.delete(ids=[id]): removes the record if there is one; an id
\* that is not stored is not an error.
collection_delete(coll, id, db) ==
    CASE db = "fail" -> [raised |-> TRUE, collection |-> coll]
      [] OTHER -> [raised |-> FALSE, collection |-> Without(coll, id)]

\* ---------------------------------------------------------------- memory.py
\* class Document.
Document(page_content, metadata) ==
    [page_content |-> page_content, metadata |-> metadata]
\* Mutant of NewRecord: the metadata carries no id.
NewRecord_blank_id(memory_id, timestamp, embedding, text) ==
    [id |-> memory_id,
     embedding |-> embedding,
     metadata |-> [timestamp |-> timestamp, type |-> "memory", id |-> 0],
     document |-> text]

\* The record remember hands to collection.add.
NewRecord(memory_id, timestamp, embedding, text) ==
    [id |-> memory_id,
     embedding |-> embedding,
     metadata |-> [timestamp |-> timestamp, type |-> "memory", id |-> memory_id],
     document |-> text]

\* Mutant of uuid4: an id is free again once its record is gone.
uuid4_unused(drawn) ==
    {i \in Ids \ IdsOf(collection) : \A j \in Ids \ IdsOf(collection) : i <= j}

\* uuid.uuid4(): a draw gives an id that no earlier draw gave.  Ids are
\* opaque, so of the fresh ids the draw takes the first one (the others are
\* renamings of the same behaviour).  The set is empty once Ids is used up.
uuid4(drawn) ==
    {i \in Ids \ drawn : \A j \in Ids \ drawn : i <= j}

NoResult == [status |-> "none", message |-> "", id |-> 0]

\* Mutant of remember: the exception is caught and reported as a status, the
\* way delete_memory does.
remember_caught(coll, dim, memory_id, timestamp, text, response, db) ==
    LET e == get_embedding(text, response)
        a == collection_add(coll, dim,
                 NewRecord(memory_id, timestamp, e.embedding, text), db)
    IN IF e.raised \/ a.raised
       THEN [raised |-> FALSE, collection |-> coll, dimension |-> dim,
             asked |-> <<e.model>>,
             result |-> [status |-> "error", message |-> "Failed to store memory",
                         id |-> 0]]
       ELSE [raised |-> FALSE, collection |-> a.collection,
             dimension |-> a.dimension, asked |-> <<e.model>>,
             result |-> [status |-> "success", message |-> "Memory stored",
                         id |-> memory_id]]

\* PippaMemoryTool.remember, called with the drawn id and the clock's value.
\* An exception of the provider or of the collection leaves the method.
remember(coll, dim, memory_id, timestamp, text, response, db) ==
    LET e == get_embedding(text, response)
        a == collection_add(coll, dim,
                 NewRecord(memory_id, timestamp, e.embedding, text), db)
    IN IF e.raised \/ a.raised
       THEN [raised |-> TRUE, collection |-> coll, dimension |-> dim,
             asked |-> <<e.model>>, result |-> NoResult]
       ELSE [raised |-> FALSE, collection |-> a.collection,
             dimension |-> a.dimension, asked |-> <<e.model>>,
             result |-> [status |-> "success", message |-> "Memory stored",
                         id |-> memory_id]]

\* Mutant of recall_documents: the text is read at index 0, not at index i.
recall_documents_first(records) ==
    [i \in 1..Len(records) |-> Document(records[1].document, records[i].metadata)]

\* Lines 149-159: query results to Document objects.
recall_documents(records) ==
    [i \in 1..Len(records) |-> Document(records[i].document, records[i].metadata)]

\* Mutant of recall: no try/except, an exception leaves the method.
recall_unguarded(coll, dim, query, limit, response, db) ==
    LET lim == IF limit = <<>> THEN get_setting("similarity_top_k", 3) ELSE limit[1]
        e == get_embedding(query, response)
        r == collection_query(coll, dim, e.embedding, lim, db)
    IN IF e.raised \/ r.raised
       THEN [raised |-> TRUE, asked |-> <<e.model>>, docs |-> <<>>]
       ELSE [raised |-> FALSE, asked |-> <<e.model>>,
             docs |-> recall_documents(r.records)]

\* Mutant of recall: when the provider fails, the first memories are
\* returned in place of the nearest ones.
recall_fallback(coll, dim, query, limit, response, db) ==
    LET lim == IF limit = <<>> THEN get_setting("similarity_top_k", 3) ELSE limit[1]
        e == get_embedding(query, response)
        r == collection_query(coll, dim, e.embedding, lim, db)
        g == collection_get(coll, lim, db)
    IN IF e.raised
       THEN [raised |-> FALSE, asked |-> <<e.model>>,
             docs |-> recall_documents(g.records)]
       ELSE IF r.raised
       THEN [raised |-> FALSE, asked |-> <<e.model>>, docs |-> <<>>]
       ELSE [raised |-> FALSE, asked |-> <<e.model>>,
             docs |-> recall_documents(r.records)]

\* PippaMemoryTool.recall: every exception inside the try gives [].
recall(coll, dim, query, limit, response, db) ==
    LET lim == IF limit = <<>> THEN get_setting("similarity_top_k", 3) ELSE limit[1]
        e == get_embedding(query, response)
        r == collection_query(coll, dim, e.embedding, lim, db)
    IN IF e.raised \/ r.raised
       THEN [raised |-> FALSE, asked |-> <<e.model>>, docs |-> <<>>]
       ELSE [raised |-> FALSE, asked |-> <<e.model>>,
             docs |-> recall_documents(r.records)]

\* Lines 178-188: get results to Document objects.
list_documents(records) ==
    [i \in 1..Len(records) |-> Document(records[i].document, records[i].metadata)]
\* Mutant of list_memories: no try/except, the exception of collection.get
\* reaches the caller.
list_memories_unguarded(coll, limit, db) ==
    LET r == collection_get(coll, limit, db)
    IN [raised |-> r.raised, asked |-> <<>>, docs |-> list_documents(r.records)]

\* PippaMemoryTool.list_memories.
list_memories(coll, limit, db) ==
    LET r == collection_get(coll, limit, db)
    IN IF r.raised
       THEN [raised |-> FALSE, asked |-> <<>>, docs |-> <<>>]
       ELSE [raised |-> FALSE, asked |-> <<>>, docs |-> list_documents(r.records)]

\* PippaMemoryTool.delete_memory.
delete_memory(coll, memory_id, db) ==
    LET r == collection_delete(coll, memory_id, db)
    IN IF r.raised
       THEN [raised |-> FALSE, collection |-> coll,
             result |-> [status |-> "error", message |-> "Failed to delete memory",
                         id |-> memory_id]]
       ELSE [raised |-> FALSE, collection |-> r.collection,
             result |-> [status |-> "success", message |-> "Memory deleted",
                         id |-> memory_id]]

\* ------------------------------------------------------------ state machine
\* The record of a call, before the call fills it in.
NoCall ==
    [op |-> "none", caller |-> "none", text |-> "", id |-> 0, limit |-> <<>>,
     response |-> "none", present |-> FALSE, size |-> 0, raised |-> FALSE,
     result |-> NoResult, docs |-> <<>>, message |-> "",
     method |-> "none", asked |-> <<>>, db |-> "none", id_arg |-> <<>>,
     action |-> "", tools |-> <<>>]
\* The known log files of the logs directory.
LogNames == {"Startup Log", "MCP Log", "Memory Init Log"}

\* Every log file has content, the selectbox shows the first one, and the
\* Logs page is not on screen.
LogsAtStart ==
    [files |-> [n \in LogNames |-> "content"], selected |-> "Startup Log",
     shown |-> FALSE]

\* No confirmation flag is set: confirm_delete_{i} for no list position i,
\* confirm_clear_log and confirm_clear_all false.
NoConfirm == [delete |-> {}, clear_log |-> FALSE, clear_all |-> FALSE]
\* The greeting server right after app.run started on the stdio streams: no
\* message received, the session not initialised.
GreetingAtStart ==
    [phase |-> "connected", initialize_seen |-> FALSE, inbox |-> <<>>]

\* streamlit_app.py lines 82-85: no memory is being edited.
NoEdit ==
    [editing_memory |-> FALSE, edit_memory_id |-> <<>>,
     edit_memory_content |-> ""]
\* server.py lines 42-46: the global memory_tool after PippaMemoryTool()
\* returned; __init__ reads the embedding model once.
PippaMemoryTool ==
    [initialised |-> TRUE,
     embedding_model |-> DEFAULT_SETTINGS.embedding_model]

\* server.py lines 47-54: PippaMemoryTool() raised, the name memory_tool is
\* not defined.
NoMemoryTool == [initialised |-> FALSE, embedding_model |-> ""]

Init ==
    /\ collection = <<>>
    /\ dimension = 0
    /\ SETTINGS = DEFAULT_SETTINGS
    /\ memory_tool = PippaMemoryTool
    /\ session_state = NoEdit
    /\ uuids = {}
    /\ now = 0
    /\ last = NoCall
    /\ returned = <<>>
    /\ stored = <<>>
    /\ deleted = {}
    /\ confirm_flags = NoConfirm
    /\ logs = LogsAtStart
    /\ clicked = {}
    /\ greeting_session = GreetingAtStart

\* What the caller of remember answers or displays for its outcome r:
\* nothing when remember is called directly, the answer text of the tool
\* handler, the banner of the Create Memory page.
ApiShown(r) == ""

ToolShown(r) == IF r.raised THEN "" ELSE "I'll remember that"

PageShown(r) ==
    IF r.raised THEN "Error saving memory"
    ELSE IF r.result.status = "success" THEN "Memory saved successfully"
    ELSE "Failed to save memory"

Shown(caller, r) ==
    CASE caller = "tool" -> ToolShown(r)
      [] caller = "page" -> PageShown(r)
      [] OTHER -> ApiShown(r)

\* Only the Create Memory page wraps remember in try/except.
Catches(caller) == caller = "page"
\* A branch of tool_handler reaches the name memory_tool: the branch runs A
\* when the global is defined and ends in NameError when it is not.
WithMemoryTool(op, A) ==
    IF memory_tool.initialised
    THEN A
    ELSE /\ last' = [NoCall EXCEPT !.op = op, !.caller = "tool",
                       !.size = Len(collection), !.raised = TRUE,
                       !.message = "NameError: memory_tool"]
         /\ UNCHANGED <<collection, dimension, SETTINGS, memory_tool,
                        session_state, uuids, now, returned, stored, deleted,
                   confirm_flags, logs, clicked, greeting_session>>

\* One run of remember for a caller.
RememberCall(caller, text, response, db) ==
    /\ uuid4(uuids) # {}
    /\ \E memory_id \in uuid4(uuids) :
         LET r == remember(collection, dimension, memory_id, now, text, response, db)
             ok == ~r.raised /\ r.result.status = "success"
         IN /\ collection' = r.collection
            /\ dimension' = r.dimension
            /\ uuids' = uuids \cup {memory_id}
            /\ now' = now + 1
            /\ returned' = IF ok THEN Append(returned, r.result.id) ELSE returned
            /\ stored' = IF ok THEN (r.result.id :> text) @@ stored ELSE stored
            /\ last' = [NoCall EXCEPT !.op = "remember", !.caller = caller,
                          !.text = text, !.response = response,
                          !.size = Len(collection),
                          !.raised = r.raised /\ ~Catches(caller),
                          !.result = r.result, !.message = Shown(caller, r),
                          !.method = "remember", !.asked = r.asked, !.db = db]
    /\ UNCHANGED <<SETTINGS, memory_tool, session_state, deleted,
                   confirm_flags, logs, clicked, greeting_session>>
\* Mutant of Falsy: only a missing argument (None) counts, and
\* arguments.get(key, "") never gives None.
IsNone(value) == FALSE

\* Python's "not value" for an argument of a tool call: the empty string, or
\* no value at all (<<>>).
Falsy(value) == Len(value) = 0

\* memory_tool.remember(text) called directly.
Remember ==
    \E text \in Texts, response \in ProviderResponses, db \in DbOutcomes :
        RememberCall("api", text, response, db)

\* server.py tool_handler, name == "remember": the empty text is answered
\* without calling the store; an exception of remember leaves the handler.
tool_handler_remember ==
    \E text \in FormTexts, response \in ProviderResponses, db \in DbOutcomes :
        IF Falsy(text)
        THEN /\ last' = [NoCall EXCEPT !.op = "remember", !.caller = "tool",
                           !.size = Len(collection),
                           !.message = "Error: No memory text provided."]
             /\ UNCHANGED <<collection, dimension, SETTINGS, memory_tool,
                            session_state, uuids, now,
                            returned, stored, deleted,
                   confirm_flags, logs, clicked, greeting_session>>
        ELSE WithMemoryTool("remember",
                            RememberCall("tool", text, response, db))

\* streamlit_app.py, Create Memory page, form submitted: the page catches
\* every exception of remember and shows it.
create_memory_page ==
    \E text \in FormTexts, response \in ProviderResponses, db \in DbOutcomes :
        IF text = ""
        THEN /\ last' = [NoCall EXCEPT !.op = "remember", !.caller = "page",
                           !.size = Len(collection),
                           !.message = "Please enter memory content before saving"]
             /\ UNCHANGED <<collection, dimension, SETTINGS, memory_tool,
                            session_state, uuids, now,
                            returned, stored, deleted,
                   confirm_flags, logs, clicked, greeting_session>>
        ELSE RememberCall("page", text, response, db)

\* What the tool handler answers for the documents recall returned.
RecallShown(caller, docs) ==
    CASE caller = "tool" /\ docs = <<>> -> "I don't recall anything related to that."
      [] caller = "tool" /\ docs # <<>> -> "Here's what I recall:"
      [] OTHER -> ""

\* One run of recall for a caller: given is the limit the caller was given
\* (<<>> for none), passed the limit it hands to recall.
RecallCall(caller, query, given, passed, response, db) ==
    LET r == recall(collection, dimension, query, passed, response, db)
    IN /\ last' = [NoCall EXCEPT !.op = "recall", !.caller = caller,
                     !.text = query, !.limit = given, !.response = response,
                     !.size = Len(collection), !.raised = r.raised,
                     !.docs = r.docs, !.method = "recall",
                     !.asked = r.asked, !.db = db,
                     !.message = RecallShown(caller, r.docs)]
       /\ UNCHANGED <<collection, dimension, SETTINGS, memory_tool,
                      session_state, uuids, now, returned, stored, deleted,
                   confirm_flags, logs, clicked, greeting_session>>

\* memory_tool.recall(query, limit).
Recall ==
    \E query \in Queries, limit \in Limits, response \in ProviderResponses,
       db \in DbOutcomes :
        RecallCall("api", query, limit, limit, response, db)

\* memory_tool.list_memories(limit).
ListMemories ==
    \E k \in 1..MaxLimit, db \in DbOutcomes :
        LET r == list_memories(collection, k, db)
        IN /\ last' = [NoCall EXCEPT !.op = "list_memories", !.caller = "api",
                         !.limit = <<k>>, !.size = Len(collection),
                         !.raised = r.raised, !.docs = r.docs,
                         !.method = "list_memories", !.asked = r.asked,
                         !.db = db]
           /\ UNCHANGED <<collection, dimension, SETTINGS, memory_tool,
                            session_state, uuids, now,
                          returned, stored, deleted,
                   confirm_flags, logs, clicked, greeting_session>>
\* The ids remember has returned to its callers.
ReturnedIds == {returned[i] : i \in 1..Len(returned)}

\* What the tool handler answers for the result of delete_memory.
DeleteShown(caller, result) ==
    CASE caller = "tool" /\ result.status = "success" -> "Memory deleted successfully."
      [] caller = "tool" /\ result.status # "success" -> "Error: Failed to delete memory"
      [] OTHER -> ""

\* One run of delete_memory for a caller.
DeleteCall(caller, memory_id, db) ==
    LET r == delete_memory(collection, memory_id, db)
    IN /\ collection' = r.collection
       /\ stored' = [i \in DOMAIN stored \ {memory_id} |-> stored[i]]
       /\ deleted' = IF r.result.status = "success"
                     THEN deleted \cup ({memory_id} \cap ReturnedIds)
                     ELSE deleted
       /\ last' = [NoCall EXCEPT !.op = "delete_memory", !.caller = caller,
                     !.id = memory_id, !.id_arg = <<memory_id>>,
                     !.size = Len(collection),
                     !.present = memory_id \in IdsOf(collection),
                     !.raised = r.raised, !.result = r.result,
                     !.method = "delete_memory", !.db = db,
                     !.message = DeleteShown(caller, r.result)]
       /\ UNCHANGED <<dimension, SETTINGS, memory_tool, session_state,
                      uuids, now, returned,
                      confirm_flags, logs, clicked, greeting_session>>

\* memory_tool.delete_memory(memory_id), with an id some remember returned
\* or with an id that never existed.
DeleteMemory ==
    \E memory_id \in ReturnedIds \cup UnknownIds, db \in DbOutcomes :
        DeleteCall("api", memory_id, db)

Next ==
    \/ Remember
    \/ tool_handler_remember
    \/ create_memory_page
    \/ Recall
    \/ ListMemories
    \/ DeleteMemory

Spec == Init /\ [][Next]_vars
\* ------------------------------------------------- server.py tool_handler
\* The query argument of a recall tool call, "" when empty or missing.
FormQueries == Queries \cup {""}

\* The id a tool call may have been given: none, a stored or deleted id, or
\* an id that never existed.
IdArgs == {<<>>} \cup {<<i>> : i \in ReturnedIds \cup UnknownIds}

\* The id delete_memory is called with for the argument given.
IdOf(id_arg) == IF id_arg = <<>> THEN 0 ELSE id_arg[1]

\* tool_handler, name == "recall": the empty query is answered without
\* calling the store; without a limit argument the handler passes the
\* similarity_top_k setting.
ToolRecall(query, limit, response, db) ==
    IF Falsy(query)
    THEN /\ last' = [NoCall EXCEPT !.op = "recall", !.caller = "tool",
                       !.limit = limit, !.size = Len(collection),
                       !.message = "Error: No query provided."]
         /\ UNCHANGED <<collection, dimension, SETTINGS, memory_tool,
                        session_state, uuids, now, returned, stored, deleted,
                   confirm_flags, logs, clicked, greeting_session>>
    ELSE WithMemoryTool("recall",
                        RecallCall("tool", query, limit,
                                   IF limit = <<>>
                                   THEN <<get_setting("similarity_top_k", 3)>>
                                   ELSE limit,
                                   response, db))

tool_handler_recall ==
    \E query \in FormQueries, limit \in Limits, response \in ProviderResponses,
       db \in DbOutcomes :
        ToolRecall(query, limit, response, db)

\* tool_handler, name == "delete": the empty id is answered without calling
\* the store.
tool_handler_delete ==
    \E id_arg \in IdArgs, db \in DbOutcomes :
        IF Falsy(id_arg)
        THEN /\ last' = [NoCall EXCEPT !.op = "delete_memory", !.caller = "tool",
                           !.size = Len(collection),
                           !.message = "Error: No memory ID provided."]
             /\ UNCHANGED <<collection, dimension, SETTINGS, memory_tool,
                            session_state, uuids, now, returned, stored,
                            deleted,
                   confirm_flags, logs, clicked, greeting_session>>
        ELSE WithMemoryTool("delete_memory",
                            DeleteCall("tool", IdOf(id_arg), db))

NextTools ==
    \/ tool_handler_remember
    \/ tool_handler_recall
    \/ tool_handler_delete

SpecTools == Init /\ [][NextTools]_vars

\* ------------------------------------------------ tool_handler, config set
\* config.update_settings(**{key: value}): SETTINGS.update(kwargs).
update_settings(settings, key, value) ==
    [k \in DOMAIN settings \cup {key} |-> IF k = key THEN value ELSE settings[k]]

\* str.upper() on the level names a call may give.
upper(s) ==
    CASE s = "debug" -> "DEBUG"
      [] s = "notset" -> "NOTSET"
      [] s = "basic_format" -> "BASIC_FORMAT"
      [] s = "verbose" -> "VERBOSE"
      [] OTHER -> s

\* getattr(logging, name): the attribute, or AttributeError.
logging_getattr(name) ==
    CASE name \in DOMAIN logging ->
            [raised |-> FALSE, value |-> PyInt(logging[name])]
      [] name = "BASIC_FORMAT" ->
            [raised |-> FALSE, value |-> PyStr(BASIC_FORMAT)]
      [] OTHER -> [raised |-> TRUE, value |-> PyInt(0)]

\* logger.setLevel(level) raises ValueError for a str that names no level
\* and takes every int.
setLevel_raises(level) ==
    "str" \in DOMAIN level /\ level.str \notin DOMAIN logging

\* tool_handler lines 199-214, key == "log_level": a str is looked up in the
\* logging module (AttributeError gives "Invalid log level"); the value is
\* then stored by update_settings, which stores before it calls setLevel, and
\* the ValueError of setLevel is not caught.
config_set_log_level(settings, value) ==
    LET g == IF "str" \in DOMAIN value
             THEN logging_getattr(upper(value.str))
             ELSE [raised |-> FALSE, value |-> value]
    IN IF g.raised
       THEN [settings |-> settings, raised |-> FALSE,
             message |-> "Invalid log level"]
       ELSE [settings |-> update_settings(settings, "log_level", g.value),
             raised |-> setLevel_raises(g.value),
             message |-> IF setLevel_raises(g.value) THEN "" ELSE "Updated"]

\* tool_handler, name == "config", action == "set": value is <<>> when the
\* call gives none.  For a key other than log_level the value is stored as it
\* came.
tool_handler_config_set(key, value) ==
    IF Falsy(key) \/ value = <<>>
    THEN /\ last' = [NoCall EXCEPT !.op = "config", !.caller = "tool",
                       !.text = key, !.size = Len(collection),
                       !.action = "set",
                       !.message = "Error: Both key and value must be provided."]
         /\ UNCHANGED <<collection, dimension, SETTINGS, memory_tool,
                        session_state, uuids, now, returned, stored, deleted,
                   confirm_flags, logs, clicked, greeting_session>>
    ELSE IF key = "log_level"
    THEN LET r == config_set_log_level(SETTINGS, value[1])
         IN /\ SETTINGS' = r.settings
            /\ last' = [NoCall EXCEPT !.op = "config", !.caller = "tool",
                          !.text = key, !.size = Len(collection),
                          !.action = "set",
                          !.raised = r.raised, !.message = r.message]
            /\ UNCHANGED <<collection, dimension, memory_tool, session_state,
                           uuids, now, returned, stored, deleted,
                   confirm_flags, logs, clicked, greeting_session>>
    ELSE /\ SETTINGS' = update_settings(SETTINGS, key, value[1])
         /\ last' = [NoCall EXCEPT !.op = "config", !.caller = "tool",
                       !.text = key, !.size = Len(collection),
                       !.action = "set",
                       !.message = "Updated"]
         /\ UNCHANGED <<collection, dimension, memory_tool, session_state,
                        uuids, now, returned, stored, deleted,
                   confirm_flags, logs, clicked, greeting_session>>

\* The values a config set of similarity_top_k is given.
TopKs == {1, 2}

config_set_similarity_top_k ==
    \E value \in {<<>>} \cup {<<k>> : k \in TopKs} :
        tool_handler_config_set("similarity_top_k", value)

\* memory_tool.recall(query): no limit given.
RecallDefault ==
    \E query \in Queries, response \in ProviderResponses, db \in DbOutcomes :
        RecallCall("api", query, <<>>, <<>>, response, db)

\* A recall tool call with no limit argument.
tool_handler_recall_default ==
    \E query \in FormQueries, response \in ProviderResponses, db \in DbOutcomes :
        ToolRecall(query, <<>>, response, db)

NextTopK ==
    \/ Remember
    \/ RecallDefault
    \/ tool_handler_recall_default
    \/ config_set_similarity_top_k

SpecTopK == Init /\ [][NextTopK]_vars

\* The models a config set of embedding_model is given.
Models == {"text-embedding-3-small", "text-embedding-3-large"}

config_set_embedding_model ==
    \E value \in {<<>>} \cup {<<model>> : model \in Models} :
        tool_handler_config_set("embedding_model", value)

NextModel ==
    \/ tool_handler_remember
    \/ RecallDefault
    \/ config_set_embedding_model

SpecModel == Init /\ [][NextModel]_vars

\* ----------------------------------- tool_handler, config and unknown tools
\* The action argument of a config tool call.
ConfigActions == {"get", "set", "reset"}

\* The key argument of a config set, "" when empty or missing.
ConfigKeys == {"", "log_level", "similarity_top_k"}

\* The log levels a config set is given: names in any case, a name that is
\* no attribute of logging, a name that is an attribute but no level, and
\* an integer.
LogLevelValues ==
    {PyStr("debug"), PyStr("verbose"), PyStr("basic_format"), PyInt(7)}

\* The value argument for a key: none, or a value.
ConfigValues(key) ==
    IF key = "log_level"
    THEN {<<>>} \cup {<<v>> : v \in LogLevelValues}
    ELSE {<<>>, <<2>>}

\* tool_handler, name == "config".
ToolConfig(action, key, value) ==
    CASE action = "get" ->
            /\ last' = [NoCall EXCEPT !.op = "config", !.caller = "tool",
                          !.action = action, !.size = Len(collection),
                          !.message = "Current configuration:"]
            /\ UNCHANGED <<collection, dimension, SETTINGS, memory_tool,
                           session_state, uuids, now, returned, stored, deleted,
                   confirm_flags, logs, clicked, greeting_session>>
      [] action = "set" -> tool_handler_config_set(key, value)
      [] OTHER ->
            /\ last' = [NoCall EXCEPT !.op = "config", !.caller = "tool",
                          !.action = action, !.size = Len(collection),
                          !.message = "Unknown config action"]
            /\ UNCHANGED <<collection, dimension, SETTINGS, memory_tool,
                           session_state, uuids, now, returned, stored, deleted,
                   confirm_flags, logs, clicked, greeting_session>>

tool_handler_config ==
    \E action \in ConfigActions, key \in ConfigKeys :
        \E value \in ConfigValues(key) :
            ToolConfig(action, key, value)

\* Tool names that tool_handler does not know.
UnknownTools == {"forget"}

\* tool_handler, the final else.
tool_handler_unknown ==
    \E name \in UnknownTools :
        /\ last' = [NoCall EXCEPT !.op = "unknown", !.caller = "tool",
                      !.text = name, !.size = Len(collection),
                      !.message = "Unknown tool"]
        /\ UNCHANGED <<collection, dimension, SETTINGS, memory_tool,
                       session_state, uuids, now, returned, stored, deleted,
                   confirm_flags, logs, clicked, greeting_session>>

NextConfig ==
    \/ tool_handler_remember
    \/ tool_handler_config
    \/ tool_handler_unknown

SpecConfig == Init /\ [][NextConfig]_vars

\* ------------------------------------------------------ server.py list_tools
\* Mutant of list_tools: the five tools whether or not memory_tool exists.
list_tools_always(tool) ==
    <<"remember", "recall", "list", "delete", "config">>

\* list_tools: the names of the tools returned, in order.
list_tools(tool) ==
    IF ~tool.initialised
    THEN <<>>
    ELSE <<"remember", "recall", "list", "delete", "config">>

\* The names tool_handler has a branch for.
Dispatched == {"remember", "recall", "list", "delete", "config"}

\* A listTools request.
list_tools_request ==
    /\ last' = [NoCall EXCEPT !.op = "list_tools", !.caller = "tool",
                  !.size = Len(collection), !.tools = list_tools(memory_tool)]
    /\ UNCHANGED <<collection, dimension, SETTINGS, memory_tool, session_state,
                   uuids, now, returned, stored, deleted,
                   confirm_flags, logs, clicked, greeting_session>>

\* What the tool handler answers for the documents list_memories returned.
ListShown(docs) ==
    IF docs = <<>> THEN "I don't have any memories stored yet."
    ELSE "Here are my memories:"

\* tool_handler, name == "list": without a limit argument the limit is 10.
tool_handler_list ==
    \E limit \in Limits, db \in DbOutcomes :
        WithMemoryTool("list_memories",
            LET r == list_memories(collection,
                                   IF limit = <<>> THEN 10 ELSE limit[1], db)
            IN /\ last' = [NoCall EXCEPT
                             !.op = "list_memories", !.caller = "tool",
                             !.limit = limit, !.size = Len(collection),
                             !.raised = r.raised, !.docs = r.docs,
                             !.method = "list_memories", !.asked = r.asked,
                             !.db = db, !.message = ListShown(r.docs)]
               /\ UNCHANGED <<collection, dimension, SETTINGS, memory_tool,
                              session_state, uuids, now, returned, stored,
                              deleted,
                   confirm_flags, logs, clicked, greeting_session>>)

\* A config get tool call.
tool_handler_config_get == ToolConfig("get", "", <<>>)

\* The server starts with the memory tool initialised or not.
InitServer ==
    /\ collection = <<>>
    /\ dimension = 0
    /\ SETTINGS = DEFAULT_SETTINGS
    /\ memory_tool \in {PippaMemoryTool, NoMemoryTool}
    /\ session_state = NoEdit
    /\ uuids = {}
    /\ now = 0
    /\ last = NoCall
    /\ returned = <<>>
    /\ stored = <<>>
    /\ deleted = {}
    /\ confirm_flags = NoConfirm
    /\ logs = LogsAtStart
    /\ clicked = {}
    /\ greeting_session = GreetingAtStart

NextServer ==
    \/ list_tools_request
    \/ tool_handler_remember
    \/ tool_handler_recall_default
    \/ tool_handler_list
    \/ tool_handler_delete
    \/ tool_handler_config_get
    \/ tool_handler_unknown

SpecServer == InitServer /\ [][NextServer]_vars

\* ------------------------------------- config.py start-up, SIMILARITY_TOP_K
\* The values of the SIMILARITY_TOP_K environment variable: <<>> when it is
\* not set, else its text.
EnvTopKs == {<<>>, <<"2">>, <<"0">>, <<"many">>}

\* int(val_str) on those texts: the number, or ValueError.
int(val_str) ==
    CASE val_str = "2" -> [raised |-> FALSE, value |-> 2]
      [] val_str = "0" -> [raised |-> FALSE, value |-> 0]
      [] OTHER -> [raised |-> TRUE, value |-> 0]

\* config._get_env_int(name, default) for the value env of the variable.
get_env_int(env, default) ==
    IF env = <<>> \/ Falsy(env[1]) THEN default
    ELSE IF int(env[1]).raised THEN default
    ELSE int(env[1]).value

\* The process starts with SETTINGS built from the environment.
InitEnv ==
    /\ collection = <<>>
    /\ dimension = 0
    /\ \E env \in EnvTopKs :
         SETTINGS = [DEFAULT_SETTINGS EXCEPT
                       !.similarity_top_k =
                          get_env_int(env, DEFAULT_SETTINGS.similarity_top_k)]
    /\ memory_tool = PippaMemoryTool
    /\ session_state = NoEdit
    /\ uuids = {}
    /\ now = 0
    /\ last = NoCall
    /\ returned = <<>>
    /\ stored = <<>>
    /\ deleted = {}
    /\ confirm_flags = NoConfirm
    /\ logs = LogsAtStart
    /\ clicked = {}
    /\ greeting_session = GreetingAtStart

\* The integers a config set of similarity_top_k may be given.
AnyTopKs == {0, 1}

config_set_any_top_k ==
    \E value \in {<<>>} \cup {<<k>> : k \in AnyTopKs} :
        tool_handler_config_set("similarity_top_k", value)

NextLimit ==
    \/ Remember
    \/ RecallDefault
    \/ config_set_any_top_k

SpecLimit == InitEnv /\ [][NextLimit]_vars

\* ------------------------------------------ failing provider and database
\* What the provider may do on a read: answer, raise, or answer with a
\* vector of another length.
ReadResponses == {"ok", "error", "baddim"}

\* memory_tool.recall(query) while the provider or ChromaDB may fail.
RecallFaults ==
    \E query \in Queries, response \in ReadResponses, db \in DbFaults :
        RecallCall("api", query, <<>>, <<>>, response, db)

\* memory_tool.list_memories(limit) while ChromaDB may fail.
ListFaults ==
    \E k \in 1..MaxLimit, db \in DbFaults :
        LET r == list_memories(collection, k, db)
        IN /\ last' = [NoCall EXCEPT !.op = "list_memories", !.caller = "api",
                         !.limit = <<k>>, !.size = Len(collection),
                         !.raised = r.raised, !.docs = r.docs,
                         !.method = "list_memories", !.asked = r.asked,
                         !.db = db]
           /\ UNCHANGED <<collection, dimension, SETTINGS, memory_tool,
                          session_state, uuids, now, returned, stored, deleted,
                   confirm_flags, logs, clicked, greeting_session>>

NextFaults ==
    \/ Remember
    \/ RecallFaults
    \/ ListFaults

SpecFaults == Init /\ [][NextFaults]_vars

\* ------------------------------------------- streamlit_app.py, admin pages
\* Browse Memories page, Edit button of a listed memory (the list is shown
\* only while no memory is being edited, and shows every record).
start_edit_memory ==
    /\ ~session_state.editing_memory
    /\ \E i \in 1..Len(collection) :
         /\ session_state' = [editing_memory |-> TRUE,
                              edit_memory_id |-> <<collection[i].metadata.id>>,
                              edit_memory_content |-> collection[i].document]
         /\ last' = [NoCall EXCEPT !.op = "start_edit", !.caller = "page",
                       !.id = collection[i].metadata.id,
                       !.size = Len(collection)]
    /\ UNCHANGED <<collection, dimension, SETTINGS, memory_tool, uuids, now,
                   returned, stored, deleted,
                   confirm_flags, logs, clicked, greeting_session>>

\* Mutant of edit_steps: remember first, delete_memory of the old id only
\* after remember reported success.
edit_steps_recreate_first(coll, dim, edit_id, memory_id, timestamp, text, response, db_delete, db) ==
    LET r == remember(coll, dim, memory_id, timestamp, text, response, db)
        stored_ok == ~r.raised /\ r.result.status = "success"
        d == delete_memory(r.collection, edit_id, db_delete)
    IN [deleted_ok |-> stored_ok /\ d.result.status = "success",
        remembered |-> TRUE,
        raised |-> r.raised,
        collection |-> IF stored_ok THEN d.collection ELSE r.collection,
        dimension |-> r.dimension,
        result |-> r.result,
        asked |-> r.asked]

\* Edit form, lines 155-172: delete_memory of the edited id, then, only if
\* that reported success, remember of the edited text.
edit_steps(coll, dim, edit_id, memory_id, timestamp, text, response, db_delete, db) ==
    LET d == delete_memory(coll, edit_id, db_delete)
        r == remember(d.collection, dim, memory_id, timestamp, text, response, db)
    IN IF d.result.status = "success"
       THEN [deleted_ok |-> TRUE, remembered |-> TRUE, raised |-> r.raised,
             collection |-> r.collection, dimension |-> r.dimension,
             result |-> r.result, asked |-> r.asked]
       ELSE [deleted_ok |-> FALSE, remembered |-> FALSE, raised |-> FALSE,
             collection |-> d.collection, dimension |-> dim,
             result |-> d.result, asked |-> <<>>]

\* Edit form, Update Memory: an empty text area does nothing; an exception
\* of remember ends the script run where it is, the form stays open.
update_memory ==
    /\ session_state.editing_memory
    /\ uuid4(uuids) # {}
    /\ \E edited_content \in FormTexts, response \in ProviderResponses,
          db_delete \in DbFaults, db \in DbOutcomes,
          memory_id \in uuid4(uuids) :
         LET edit_id == session_state.edit_memory_id[1]
             e == edit_steps(collection, dimension, edit_id, memory_id, now,
                             edited_content, response, db_delete, db)
             ok == e.deleted_ok /\ ~e.raised /\ e.result.status = "success"
         IN IF Falsy(edited_content)
            THEN /\ last' = [NoCall EXCEPT !.op = "edit", !.caller = "page",
                               !.id = edit_id, !.size = Len(collection)]
                 /\ UNCHANGED <<collection, dimension, session_state, uuids,
                                now, returned, stored, deleted,
                   confirm_flags, logs, clicked, greeting_session>>
            ELSE /\ collection' = e.collection
                 /\ dimension' = e.dimension
                 /\ uuids' = IF e.remembered THEN uuids \cup {memory_id}
                             ELSE uuids
                 /\ now' = IF e.remembered THEN now + 1 ELSE now
                 /\ session_state' = IF ok THEN NoEdit ELSE session_state
                 /\ returned' = IF ok THEN Append(returned, e.result.id)
                                ELSE returned
                 /\ stored' =
                       LET kept == [i \in DOMAIN stored \ {edit_id} |-> stored[i]]
                       IN IF ok THEN (e.result.id :> edited_content) @@ kept
                          ELSE IF e.deleted_ok THEN kept
                          ELSE stored
                 /\ deleted' = IF e.deleted_ok
                               THEN deleted \cup ({edit_id} \cap ReturnedIds)
                               ELSE deleted
                 /\ last' = [NoCall EXCEPT
                               !.op = "edit", !.caller = "page",
                               !.id = edit_id, !.text = edited_content,
                               !.response = response, !.db = db_delete,
                               !.size = Len(collection),
                               !.present = edit_id \in IdsOf(collection),
                               !.raised = e.raised,
                               !.result = e.result,
                               !.method = IF e.remembered THEN "remember"
                                          ELSE "delete_memory",
                               !.asked = e.asked,
                               !.message =
                                  IF ok THEN "Memory updated successfully"
                                  ELSE IF e.raised THEN ""
                                  ELSE "Failed to update memory"]
    /\ UNCHANGED <<SETTINGS, memory_tool,
                   confirm_flags, logs, clicked, greeting_session>>

\* Edit form, Cancel.
cancel_edit ==
    /\ session_state.editing_memory
    /\ session_state' = NoEdit
    /\ last' = [NoCall EXCEPT !.op = "cancel_edit", !.caller = "page",
                  !.size = Len(collection)]
    /\ UNCHANGED <<collection, dimension, SETTINGS, memory_tool, uuids, now,
                   returned, stored, deleted,
                   confirm_flags, logs, clicked, greeting_session>>

\* Delete Memory page, Delete Memory button: without an id or without the
\* confirmation the page only warns.  The page stays reachable while a
\* memory is being edited.
delete_memory_page ==
    \E id_arg \in IdArgs, confirm \in BOOLEAN, db \in DbOutcomes :
        IF Falsy(id_arg) \/ ~confirm
        THEN /\ last' = [NoCall EXCEPT !.op = "delete_memory", !.caller = "page",
                           !.size = Len(collection),
                           !.message = "Please enter a memory ID and confirm"]
             /\ UNCHANGED <<collection, dimension, SETTINGS, memory_tool,
                            session_state, uuids, now, returned, stored,
                            deleted,
                   confirm_flags, logs, clicked, greeting_session>>
        ELSE DeleteCall("page", IdOf(id_arg), db)

NextEdit ==
    \/ create_memory_page
    \/ start_edit_memory
    \/ update_memory
    \/ cancel_edit
    \/ delete_memory_page

SpecEdit == Init /\ [][NextEdit]_vars
\* ---- streamlit_app.py: the Browse Memories page, deleting ----

\* The memory the page shows at list position i (enumerate counts from 0);
\* list_memories returns the records in storage order.
memory_at(i) == collection[i + 1]

\* The positions of the list the page shows.
Positions == {i \in 0..(MaxUuids - 1) : i < Len(collection)}

\* The Delete button of the memory at position i, shown while
\* confirm_delete_{i} is not set: sets the flag and reruns.
delete_click ==
    /\ ~session_state.editing_memory
    /\ \E i \in Positions \ confirm_flags.delete :
         /\ confirm_flags' = [confirm_flags EXCEPT !.delete = @ \cup {i}]
         /\ clicked' = clicked \cup {memory_at(i).metadata.id}
         /\ last' = [NoCall EXCEPT !.op = "delete_click", !.caller = "browse",
                       !.id = memory_at(i).metadata.id, !.limit = <<i>>,
                       !.size = Len(collection)]
    /\ UNCHANGED <<collection, dimension, SETTINGS, memory_tool, session_state,
                   uuids, now, returned, stored, deleted, logs,
                   greeting_session>>

\* The Confirm Delete button, shown at position i while confirm_delete_{i}
\* is set: calls delete_memory with the id of the memory now at position i.
\* No branch of the helper touches the flag.
confirm_delete_click ==
    /\ ~session_state.editing_memory
    /\ \E i \in Positions \cap confirm_flags.delete, db \in DbOutcomes :
         DeleteCall("browse", memory_at(i).metadata.id, db)

\* The Cancel button next to Confirm Delete: clears the flag and reruns.
cancel_delete_click ==
    /\ ~session_state.editing_memory
    /\ \E i \in Positions \cap confirm_flags.delete :
         /\ confirm_flags' = [confirm_flags EXCEPT !.delete = @ \ {i}]
         /\ last' = [NoCall EXCEPT !.op = "cancel_delete", !.caller = "browse",
                       !.id = memory_at(i).metadata.id, !.limit = <<i>>,
                       !.size = Len(collection)]
    /\ UNCHANGED <<collection, dimension, SETTINGS, memory_tool, session_state,
                   uuids, now, returned, stored, deleted, logs, clicked,
                   greeting_session>>

\* The Refresh List button: a rerun, which reads the list again.
refresh_list ==
    /\ last' = [NoCall EXCEPT !.op = "refresh", !.caller = "browse",
                  !.size = Len(collection)]
    /\ UNCHANGED <<collection, dimension, SETTINGS, memory_tool, session_state,
                   uuids, now, returned, stored, deleted, confirm_flags, logs,
                   clicked, greeting_session>>

NextBrowse ==
    \/ create_memory_page
    \/ delete_click
    \/ confirm_delete_click
    \/ cancel_delete_click
    \/ refresh_list
    \/ delete_memory_page

SpecBrowse == Init /\ [][NextBrowse]_vars
\* ---- streamlit_app.py: the Logs page ----

\* open(filepath, 'w') succeeds, or raises and clear_log_file returns False.
FileOutcomes == {"ok", "fail"}

\* The mutant of the else branches: the flag is left as it is.
reset_never(flags, key) == flags

\* "Reset confirmation if user clicks elsewhere": the else branch of a
\* button that was not clicked in this run.
reset_confirmation(flags, key) == [flags EXCEPT ![key] = FALSE]

\* clear_log_file(filepath): the file then holds only the "Log cleared at"
\* line.
clear_log_file(files, n, fs) ==
    IF fs = "ok" THEN [files EXCEPT ![n] = "cleared"] ELSE files

\* A run of the Logs page in which no button is clicked (the page is opened
\* from the sidebar, or the log is downloaded): both else branches run.
logs_page_run ==
    /\ logs' = [logs EXCEPT !.shown = TRUE]
    /\ confirm_flags' = reset_confirmation(
                            reset_confirmation(confirm_flags, "clear_log"),
                            "clear_all")
    /\ last' = [NoCall EXCEPT !.op = "logs_page", !.caller = "logs",
                  !.text = logs.selected]
    /\ UNCHANGED <<collection, dimension, SETTINGS, memory_tool, session_state,
                   uuids, now, returned, stored, deleted, clicked,
                   greeting_session>>

\* The sidebar selects another page: the Logs branch of the script does not
\* run, so no flag is touched.
leave_logs_page ==
    /\ logs.shown
    /\ logs' = [logs EXCEPT !.shown = FALSE]
    /\ last' = [NoCall EXCEPT !.op = "leave_logs", !.caller = "logs"]
    /\ UNCHANGED <<collection, dimension, SETTINGS, memory_tool, session_state,
                   uuids, now, returned, stored, deleted, confirm_flags,
                   clicked, greeting_session>>

\* The selectbox changes: a run with the new selection and no button clicked.
select_log ==
    /\ logs.shown
    /\ \E n \in LogNames \ {logs.selected} :
         /\ logs' = [logs EXCEPT !.selected = n]
         /\ last' = [NoCall EXCEPT !.op = "select_log", !.caller = "logs",
                       !.text = n]
    /\ confirm_flags' = reset_confirmation(
                            reset_confirmation(confirm_flags, "clear_log"),
                            "clear_all")
    /\ UNCHANGED <<collection, dimension, SETTINGS, memory_tool, session_state,
                   uuids, now, returned, stored, deleted, clicked,
                   greeting_session>>

\* The Clear Log button: the first click sets confirm_clear_log; a click with
\* the flag set clears the selected log and resets the flag when
\* clear_log_file returned True.  Clear All Logs is not clicked in this run.
clear_log_click ==
    /\ logs.shown
    /\ \E fs \in FileOutcomes :
         LET n == logs.selected
             armed == confirm_flags.clear_log
             flags == IF ~armed
                      THEN [confirm_flags EXCEPT !.clear_log = TRUE]
                      ELSE IF fs = "ok"
                           THEN [confirm_flags EXCEPT !.clear_log = FALSE]
                           ELSE confirm_flags
         IN /\ logs' = IF armed
                       THEN [logs EXCEPT !.files = clear_log_file(@, n, fs)]
                       ELSE logs
            /\ confirm_flags' = reset_confirmation(flags, "clear_all")
            /\ last' = [NoCall EXCEPT !.op = "clear_log", !.caller = "logs",
                          !.text = n,
                          !.message =
                              IF ~armed
                              THEN "Are you sure? Click again to confirm."
                              ELSE IF fs = "ok"
                                   THEN "cleared successfully."
                                   ELSE "Failed to clear log file"]
    /\ UNCHANGED <<collection, dimension, SETTINGS, memory_tool, session_state,
                   uuids, now, returned, stored, deleted, clicked,
                   greeting_session>>

\* The Clear All Logs button: the first click sets confirm_clear_all; a click
\* with the flag set calls clear_log_file on every log and resets the flag.
\* Clear Log is not clicked in this run.
clear_all_click ==
    /\ logs.shown
    /\ \E failing \in SUBSET LogNames :
         LET armed == confirm_flags.clear_all
             flags == reset_confirmation(confirm_flags, "clear_log")
         IN /\ logs' = IF armed
                       THEN [logs EXCEPT !.files =
                                [n \in LogNames |->
                                    IF n \in failing THEN @[n] ELSE "cleared"]]
                       ELSE logs
            /\ confirm_flags' = [flags EXCEPT !.clear_all = ~armed]
            /\ last' = [NoCall EXCEPT !.op = "clear_all", !.caller = "logs",
                          !.text = logs.selected,
                          !.size = IF armed
                                   THEN Cardinality(LogNames \ failing)
                                   ELSE 0,
                          !.message =
                              IF ~armed
                              THEN "Are you sure you want to clear ALL log files? Click again to confirm."
                              ELSE IF failing = {}
                                   THEN "log files cleared successfully."
                                   ELSE "Cleared some log files."]
    /\ UNCHANGED <<collection, dimension, SETTINGS, memory_tool, session_state,
                   uuids, now, returned, stored, deleted, clicked,
                   greeting_session>>

\* The server or the memory tool writes to a log file; this is no page run.
write_log ==
    /\ \E n \in LogNames :
         /\ logs.files[n] = "cleared"
         /\ logs' = [logs EXCEPT !.files[n] = "content"]
    /\ UNCHANGED <<collection, dimension, SETTINGS, memory_tool, session_state,
                   uuids, now, last, returned, stored, deleted, confirm_flags,
                   clicked, greeting_session>>

NextLogs ==
    \/ logs_page_run
    \/ leave_logs_page
    \/ select_log
    \/ clear_log_click
    \/ clear_all_click
    \/ write_log

SpecLogs == Init /\ [][NextLogs]_vars
\* ---- simple_mcp_tool/server.py: the greeting server ----

\* Messages the client may have written to the server's stdin and the server
\* has not read yet.
MaxInbox == 2

\* Tool names a callTool request may carry, and its arguments: no "name"
\* key, or a name.
GreetingToolNames == {"hello", "goodbye"}
NameArguments == {<<>>, <<"Tester">>, <<"Pippa">>}

GreetingMessages ==
    {[method |-> m, name |-> "", arguments |-> <<>>] :
        m \in {"initialize", "initialized", "listTools"}}
    \cup {[method |-> "callTool", name |-> n, arguments |-> a] :
            n \in GreetingToolNames, a \in NameArguments}

\* arguments.get("name", "there")
arguments_get_name(arguments) ==
    IF arguments = <<>> THEN "there" ELSE arguments[1]

\* The mutant of greeting_tool: the name of the tool is not looked at.
greeting_tool_any_name(name, arguments) ==
    [raised |-> FALSE, message |-> "",
     content |-> <<[type |-> "text",
                    text |-> "Hello, " \o arguments_get_name(arguments)
                             \o "! How are you today?"]>>]

\* greeting_tool(name, arguments)
greeting_tool(name, arguments) ==
    IF name # "hello"
    THEN [raised |-> TRUE, message |-> "Unknown tool: " \o name,
          content |-> <<>>]
    ELSE [raised |-> FALSE, message |-> "",
          content |-> <<[type |-> "text",
                         text |-> "Hello, " \o arguments_get_name(arguments)
                                  \o "! How are you today?"]>>]

\* list_tools() of the greeting server: the names of the tools it returns.
greeting_list_tools == <<"hello">>

\* The client writes a message to the server's stdin.
greeting_send ==
    /\ Len(greeting_session.inbox) < MaxInbox
    /\ \E m \in GreetingMessages :
         greeting_session' = [greeting_session EXCEPT !.inbox = Append(@, m)]
    /\ UNCHANGED <<collection, dimension, SETTINGS, memory_tool, session_state,
                   uuids, now, last, returned, stored, deleted, confirm_flags,
                   logs, clicked>>

\* app.run reads the next message.  The session answers initialize, notes
\* initialized, refuses every other request until then, and afterwards hands
\* listTools to list_tools and callTool to greeting_tool.
greeting_receive ==
    /\ greeting_session.inbox # <<>>
    /\ LET m == Head(greeting_session.inbox)
           phase == greeting_session.phase
           answer == [NoCall EXCEPT !.op = m.method, !.caller = "greeting",
                        !.text = m.name, !.asked = m.arguments,
                        !.method = phase]
           r == greeting_tool(m.name, m.arguments)
       IN /\ greeting_session' =
                [phase |-> CASE m.method = "initialize" -> "initializing"
                             [] m.method = "initialized" -> "initialized"
                             [] OTHER -> phase,
                 initialize_seen |-> greeting_session.initialize_seen
                                     \/ m.method = "initialize",
                 inbox |-> Tail(greeting_session.inbox)]
          /\ last' =
                CASE m.method \in {"initialize", "initialized"} -> answer
                  [] phase # "initialized" ->
                       [answer EXCEPT !.raised = TRUE,
                           !.message = "Received request before initialization was complete"]
                  [] m.method = "listTools" ->
                       [answer EXCEPT !.tools = greeting_list_tools]
                  [] OTHER ->
                       [answer EXCEPT !.raised = r.raised,
                           !.message = r.message, !.docs = r.content]
    /\ UNCHANGED <<collection, dimension, SETTINGS, memory_tool, session_state,
                   uuids, now, returned, stored, deleted, confirm_flags, logs,
                   clicked>>

NextGreeting ==
    \/ greeting_send
    \/ greeting_receive

SpecGreeting == Init /\ [][NextGreeting]_vars

\* ------------------------------------------- provider answers of odd length
\* memory_tool.remember(text) while the provider answers with a vector whose
\* length is not the model's.
RememberMismatch ==
    \E text \in Texts : RememberCall("api", text, "baddim", "ok")

NextDim ==
    \/ Next
    \/ RememberMismatch

SpecDim == Init /\ [][NextDim]_vars

\* ------------------------------------------------------------------ claims
\* The limit a recall or list call ran with.
LimitOf(call) ==
    IF call.limit = <<>> THEN SETTINGS.similarity_top_k ELSE call.limit[1]

\* Some document of docs carries this id and this text.
Holds(docs, id, text) ==
    \E i \in 1..Len(docs) :
        docs[i].metadata.id = id /\ docs[i].page_content = text

C2_UniqueIds ==
    \A i, j \in 1..Len(returned) : i # j => returned[i] # returned[j]

C2_Witness ==
    /\ Len(returned) = 3
    /\ returned[1] \in deleted
    /\ {returned[2], returned[3]} \subseteq DOMAIN stored
    /\ stored[returned[2]] = stored[returned[3]]

\* C3 (deletion): once delete_memory reported success for an id, no result
\* of a later recall or list_memories holds a document with that id.
C3_DeletedNeverReturned ==
    last.op \in {"recall", "list_memories"}
        => \A i \in 1..Len(last.docs) : last.docs[i].metadata.id \notin deleted

C3_Witness ==
    /\ last.op = "recall" /\ last.docs # <<>>
    /\ \E d \in deleted : \E i \in 1..Len(last.docs) : last.docs[i].metadata.id > d

\* C4 (delete of an absent id): delete_memory with an id that is not in the
\* collection returns status "error" and does not raise.
C4_DeleteAbsentIsError ==
    (last.op = "delete_memory" /\ ~last.present)
        => (last.result.status = "error" /\ ~last.raised)

\* C5 (provider failure in remember): a step of remember whose provider call
\* fails leaves the collection as it was, and its caller gets the exception
\* or an error display, never a success result.
SuccessShown == {"I'll remember that", "Memory saved successfully"}

C5_FailedRememberPersistsNothing ==
    [][(last'.op = "remember" /\ last'.response = "error")
         => /\ collection' = collection
            /\ dimension' = dimension
            /\ last'.result.status # "success"
            /\ last'.message \notin SuccessShown
            /\ last'.raised \/ last'.message = "Error saving memory"]_vars

C5_Witness ==
    /\ last.op = "remember" /\ last.response = "error"
    /\ last.caller = "tool"
    /\ Len(collection) >= 1

\* C6 (limit respected): recall with a positive integer limit k returns at
\* most k documents.
C6_LimitRespected ==
    (last.op = "recall" /\ last.limit # <<>> /\ last.limit[1] > 0)
        => Len(last.docs) <= last.limit[1]

C6_Witness ==
    /\ last.op = "recall" /\ last.limit = <<1>>
    /\ Len(collection) >= 2
    /\ Len(last.docs) = 1

\* C7 (ranking): when the provider succeeds, recall returns its documents in
\* non-decreasing cosine distance between the query embedding and the stored
\* embeddings, and no stored record that was left out is closer to the query
\* than a returned one.
SignedSquare(x) == IF x >= 0 THEN x * x ELSE 0 - x * x

\* 1 - cos(q, a) <= 1 - cos(q, b), on integers.
NoFartherByCosine(q, a, b) ==
    SignedSquare(Dot(q, a)) * Dot(b, b) >= SignedSquare(Dot(q, b)) * Dot(a, a)

StoredEmbedding(id) ==
    (CHOOSE r \in {collection[i] : i \in 1..Len(collection)} : r.id = id).embedding

C7_Ranking ==
    (last.op = "recall" /\ last.response = "ok")
        => LET q == Embed(last.text)
               got == {last.docs[i].metadata.id : i \in 1..Len(last.docs)}
           IN /\ got \subseteq IdsOf(collection)
              /\ \A i, j \in 1..Len(last.docs) :
                    i < j => NoFartherByCosine(q,
                                 StoredEmbedding(last.docs[i].metadata.id),
                                 StoredEmbedding(last.docs[j].metadata.id))
              /\ \A id \in got, out \in IdsOf(collection) \ got :
                    NoFartherByCosine(q, StoredEmbedding(id), StoredEmbedding(out))
              /\ Len(last.docs) = Cardinality(got)

C7_Witness ==
    /\ last.op = "recall" /\ last.response = "ok" /\ last.text = "sky"
    /\ Len(collection) = 3
    /\ Len(last.docs) = 2
    /\ collection[1].document = "grass"
    /\ last.docs[1].page_content = "blue"

\* C8 (empty store): on a collection without records, recall and
\* list_memories return the empty sequence and do not raise.
C8_EmptyStore ==
    (collection = <<>> /\ last.op \in {"recall", "list_memories"})
        => (last.docs = <<>> /\ ~last.raised)

C8_Witness ==
    /\ collection = <<>> /\ last.op = "recall" /\ last.response = "ok"
    /\ returned # <<>>

\* C9 (provider failure in recall): a recall whose provider call fails
\* returns the empty sequence and does not raise, also on a collection that
\* holds records.
C9_FailedRecallIsEmpty ==
    (last.op = "recall" /\ last.response = "error")
        => (last.docs = <<>> /\ ~last.raised)

C9_Witness ==
    /\ last.op = "recall" /\ last.response = "error"
    /\ Len(collection) >= 2

\* C10 (frame of remember): a successful remember appends exactly the new
\* record, so the size grows by one, and no step of any operation changes a
\* record that stays in the collection.
C10_RememberFrame ==
    [][/\ \A i \in 1..Len(collection) :
             collection[i].id \in IdsOf(collection')
                => \E j \in 1..Len(collection') : collection'[j] = collection[i]
       /\ (last'.op = "remember" /\ last'.result.status = "success")
             => /\ Len(collection') = Len(collection) + 1
                /\ SubSeq(collection', 1, Len(collection)) = collection
                /\ collection'[Len(collection')].id = last'.result.id
                /\ collection'[Len(collection')].document = last'.text
                /\ last'.result.id \notin IdsOf(collection)]_vars

C10_Witness ==
    /\ last.op = "remember" /\ last.result.status = "success"
    /\ Len(collection) = 3
    /\ collection[1].document = collection[3].document

\* C11 (shape of a record): every record of the collection has an id that
\* uuid4 drew (so it is not empty), an embedding vector, the raw text that was
\* remembered under its id, and metadata with the timestamp of a past call,
\* the type "memory" and an id field equal to the record's key.
C11_RecordShape ==
    \A i \in 1..Len(collection) :
        LET rec == collection[i]
        IN /\ rec.id \in uuids /\ rec.id \notin UnknownIds
           /\ rec.embedding # <<>>
           /\ rec.id \in DOMAIN stored /\ rec.document = stored[rec.id]
           /\ rec.metadata.timestamp \in 0..(now - 1)
           /\ rec.metadata.type = "memory"
           /\ rec.metadata.id = rec.id

C11_Witness ==
    /\ Len(collection) = 2
    /\ deleted # {}
    /\ collection[1].metadata.timestamp > 0
    /\ collection[1].document # collection[2].document

\* s is an initial segment of t.
IsPrefix(s, t) == Len(s) <= Len(t) /\ SubSeq(t, 1, Len(s)) = s

ModelDimension == Len(Embed("blue"))

\* C12 (dimension): every stored embedding has the configured model's
\* dimension, and a remember whose provider answer has another length does
\* not succeed and adds no record.
C12_DimensionInvariant ==
    /\ \A i \in 1..Len(collection) :
          Len(collection[i].embedding) = ModelDimension
    /\ (last.op = "remember" /\ last.response = "baddim")
          => /\ last.raised \/ last.result.status # "success"
             /\ Len(collection) = last.size

\* C13 (validation): a remember tool call without text, a recall tool call
\* without query and a delete tool call without id are answered with an error
\* message, call neither the memory tool nor the provider, and leave the
\* collection as it was.
C13_Validation ==
    [][(/\ last'.caller = "tool"
        /\ \/ last'.op \in {"remember", "recall"} /\ last'.text = ""
           \/ last'.op = "delete_memory" /\ last'.id_arg = <<>>)
          => /\ last'.message \in {"Error: No memory text provided.",
                                   "Error: No query provided.",
                                   "Error: No memory ID provided."}
             /\ last'.method = "none"
             /\ last'.asked = <<>>
             /\ collection' = collection]_vars

C13_Witness ==
    /\ last.caller = "tool" /\ last.op = "delete_memory"
    /\ last.id_arg = <<>>
    /\ last.message = "Error: No memory ID provided."
    /\ Len(collection) = 2

\* C14 (default recall limit): a recall without a limit returns at most
\* similarity_top_k documents, by the value the setting has at the call (3
\* until a config set changes it, the value set afterwards), and exactly that
\* many when the provider answers and the collection holds at least that many.
C14_DefaultLimit ==
    /\ (last.op = "recall" /\ last.limit = <<>> /\ last.method = "recall")
          => /\ Len(last.docs) <= SETTINGS.similarity_top_k
             /\ last.response = "ok"
                  => Len(last.docs) = Min(SETTINGS.similarity_top_k,
                                          Len(collection))
    /\ last.op = "none"
          => SETTINGS.similarity_top_k = DEFAULT_SETTINGS.similarity_top_k

C14_Witness ==
    /\ last.op = "recall" /\ last.limit = <<>> /\ last.response = "ok"
    /\ SETTINGS.similarity_top_k = 1
    /\ Len(collection) = 3
    /\ Len(last.docs) = 1

\* C15 (embedding model at run time): every remember and recall asks the
\* provider for an embedding from the model the embedding_model setting
\* names at the call.
C15_ModelFollowsSetting ==
    last.method \in {"remember", "recall"}
        => last.asked = <<SETTINGS.embedding_model>>

\* A read whose provider or database call failed.
ReadFailed(call) ==
    \/ call.db = "fail"
    \/ call.op = "recall" /\ call.response = "error"
    \/ call.op = "recall" /\ call.response = "baddim" /\ dimension # 0

\* C19 (read paths): recall and list_memories never raise; when the provider
\* or ChromaDB fails they return the empty sequence; and failing or not they
\* change neither the collection nor the settings.
C19_ReadPaths ==
    [][last'.op \in {"recall", "list_memories"}
          => /\ ~last'.raised
             /\ ReadFailed(last') => last'.docs = <<>>
             /\ collection' = collection
             /\ dimension' = dimension
             /\ SETTINGS' = SETTINGS]_vars

C19_Witness ==
    /\ last.op = "list_memories" /\ last.db = "fail"
    /\ last.docs = <<>> /\ ~last.raised
    /\ Len(collection) = 2

\* C20 (edit is delete then recreate): after an edit of memory I in which
\* both the delete and the remember reported success, I is not in the
\* collection, a record with the edited text is stored under a newly drawn
\* id other than I, the collection has the size it had before the edit, and
\* the editing state of the session is reset.
C20_EditRecreates ==
    (last.op = "edit" /\ last.message = "Memory updated successfully")
        => /\ last.id \notin IdsOf(collection)
           /\ last.result.id # last.id
           /\ \E i \in 1..Len(collection) :
                 /\ collection[i].id = last.result.id
                 /\ collection[i].document = last.text
           /\ Len(collection) = last.size
           /\ ~session_state.editing_memory
           /\ session_state.edit_memory_id = <<>>

\* C21 (edit is not atomic): the edit form calls remember only after
\* delete_memory reported success for the edited id (a failed delete leaves
\* the collection as it was and draws no id); and when remember then fails,
\* the collection is the old one without the edited record: neither the old
\* record nor a record made by this edit is in it, and the form stays open.
C21_EditLosesMemory ==
    [][(last'.op = "edit" /\ last'.text # "")
          => /\ last'.method = "remember" <=> last'.db = "ok"
             /\ last'.db = "fail"
                  => /\ collection' = collection
                     /\ uuids' = uuids
                     /\ last'.asked = <<>>
             /\ (last'.method = "remember"
                 /\ (last'.raised \/ last'.result.status # "success"))
                  => /\ collection' = SelectSeq(collection,
                                         LAMBDA rec : rec.id # last'.id)
                     /\ last'.id \notin IdsOf(collection')
                     /\ \A i \in 1..Len(collection') :
                           collection'[i].id \in uuids
                     /\ session_state' = session_state]_vars

C21_Witness ==
    /\ last.op = "edit" /\ last.raised /\ last.present
    /\ last.size = 2
    /\ Len(collection) = 1
    /\ session_state.editing_memory
    /\ last.id \notin IdsOf(collection)

\* The answers of the server that report an error or an unknown name.
ErrorAnswers ==
    {"Unknown tool", "Unknown config action",
     "Error: Both key and value must be provided.", "Invalid log level"}

\* C22 (error tool calls change nothing): a tool call that is answered with
\* an error or "unknown" message, or whose handler raised (the server then
\* answers with the error), and a config get, leave the settings and the
\* collection as they were.
C22_ErrorCallsChangeNothing ==
    [][(/\ last'.op \in {"config", "unknown"}
        /\ \/ last'.message \in ErrorAnswers
           \/ last'.raised
           \/ last'.action = "get")
          => (SETTINGS' = SETTINGS /\ collection' = collection)]_vars

\* The tool name of a call record.
ToolOf(call) ==
    CASE call.op = "list_memories" -> "list"
      [] call.op = "delete_memory" -> "delete"
      [] call.op = "unknown" -> call.text
      [] OTHER -> call.op

\* The names in a sequence of tool names.
NamesOf(tools) == {tools[i] : i \in 1..Len(tools)}

\* C23 (advertisement matches dispatch): list_tools returns no tool when
\* the memory tool failed to initialise and otherwise five tools whose names
\* are exactly the names tool_handler dispatches; a call of a tool that
\* list_tools advertises never ends in the NameError of a missing memory
\* tool, and never in the "Unknown tool" answer.
C23_AdvertisedIsDispatched ==
    /\ last.op = "list_tools"
          => IF memory_tool.initialised
             THEN Len(last.tools) = Cardinality(Dispatched)
                  /\ NamesOf(last.tools) = Dispatched
             ELSE last.tools = <<>>
    /\ (last.caller = "tool"
        /\ ToolOf(last) \in NamesOf(list_tools(memory_tool)))
          => /\ last.message # "NameError: memory_tool"
             /\ last.message # "Unknown tool"
    /\ last.op = "unknown" => last.text \notin NamesOf(list_tools(memory_tool))

C23_Witness ==
    /\ last.caller = "tool" /\ last.op = "list_memories"
    /\ memory_tool.initialised
    /\ Len(last.docs) = 2

\* The numeric logging levels DEBUG, INFO, WARNING, ERROR and CRITICAL.
LogLevels == {PyInt(logging[n]) : n \in DOMAIN logging \ {"NOTSET"}}

\* C24 (log level validity): the log_level setting is always one of the
\* levels DEBUG, INFO, WARNING, ERROR, CRITICAL, and a config set of
\* log_level does not raise and either stored such a level or answered
\* "Invalid log level".
C24_LogLevelValid ==
    /\ SETTINGS.log_level \in LogLevels
    /\ (last.op = "config" /\ last.action = "set" /\ last.text = "log_level")
          => /\ ~last.raised
             /\ last.message \in {"Updated", "Invalid log level",
                                  "Error: Both key and value must be provided."}

\* C25 (default limit validity): the similarity_top_k setting is always a
\* positive integer, so a recall without a limit on a non-empty collection
\* with a working provider returns at least one document.
C25_TopKPositive ==
    /\ SETTINGS.similarity_top_k >= 1
    /\ (last.op = "recall" /\ last.limit = <<>> /\ last.method = "recall"
        /\ last.response = "ok" /\ Len(collection) >= 1)
          => Len(last.docs) >= 1

\* C26: on the Browse page delete_memory is invoked for a memory only after
\* the user clicked the Delete button of that memory.
C26_ConfirmedDeleteWasClicked ==
    (last.op = "delete_memory" /\ last.caller = "browse") => last.id \in clicked

\* C27: a log file is cleared only by a click on Clear Log (for the selected
\* log) or on Clear All Logs that directly follows a run in which the same
\* button was clicked and armed the flag; a click after anything else only
\* arms the flag, every other run of the page leaves the flag of a button
\* that was not clicked reset, and a clear resets the flag.
C27_TwoConsecutiveClicks ==
    [][/\ \A n \in LogNames :
            (logs'.files[n] = "cleared" /\ logs.files[n] # "cleared") =>
                \/ /\ last'.op = "clear_log" /\ last.op = "clear_log"
                   /\ last'.text = n /\ last.text = n
                   /\ confirm_flags.clear_log /\ ~confirm_flags'.clear_log
                \/ /\ last'.op = "clear_all" /\ last.op = "clear_all"
                   /\ confirm_flags.clear_all /\ ~confirm_flags'.clear_all
       /\ \A b \in {"clear_log", "clear_all"} :
            /\ (last'.op = b /\ last.op # b) =>
                   /\ logs'.files = logs.files
                   /\ confirm_flags'[b]
            /\ (last'.op \in {"logs_page", "select_log", "clear_log",
                              "clear_all"} \ {b}) => ~confirm_flags'[b]
      ]_vars

C27_Witness ==
    /\ last.op = "clear_log"
    /\ last.message = "cleared successfully."
    /\ logs.files[last.text] = "cleared"
    /\ ~confirm_flags.clear_log

\* C28: once the greeting server's session is initialised, listTools
\* advertises exactly the one tool hello, callTool of hello returns exactly
\* one text content "Hello, N! How are you today?" with N the name argument
\* or "there" without one, and callTool of another name raises
\* "Unknown tool" and returns no content.
C28_GreetingSession ==
    (last.caller = "greeting" /\ last.method = "initialized") =>
        /\ last.op = "listTools" => (~last.raised /\ last.tools = <<"hello">>)
        /\ (last.op = "callTool" /\ last.text = "hello") =>
              /\ ~last.raised
              /\ Len(last.docs) = 1
              /\ last.docs[1].type = "text"
              /\ last.docs[1].text =
                    CASE last.asked = <<>> -> "Hello, there! How are you today?"
                      [] last.asked = <<"Tester">> -> "Hello, Tester! How are you today?"
                      [] last.asked = <<"Pippa">> -> "Hello, Pippa! How are you today?"
        /\ (last.op = "callTool" /\ last.text # "hello") =>
              /\ last.raised
              /\ last.message = "Unknown tool: goodbye"
              /\ last.docs = <<>>

C28_Witness ==
    /\ greeting_session.initialize_seen
    /\ greeting_session.phase = "initialized"
    /\ last.caller = "greeting" /\ last.method = "initialized"
    /\ last.op = "callTool" /\ last.text = "hello"
    /\ last.asked = <<"Tester">>
    /\ last.docs = <<[type |-> "text", text |-> "Hello, Tester! How are you today?"]>>

====
